---- MODULE Spec2Model ----
(***************************************************************************)
(* findAndDeleteVMs.py: waitForTasks (the property-collector update loop)  *)
(* and powerDownAndDelete (power off, wait, destroy, wait), together with  *)
(* the vCenter side they talk to: tasks that run to success or error and   *)
(* a property collector that reports the tasks changed since the last      *)
(* version.                                                                *)
(*                                                                         *)
(* A behaviour exercises one entry point: powerDownAndDelete on a list of  *)
(* virtual machines (ppc # "none"), or waitForTasks called directly on a   *)
(* list of already submitted tasks (ppc = "none").                         *)
(***************************************************************************)
EXTENDS Integers, Sequences, FiniteSets, TLC

\* Largest length of vmList.
MaxVMs == 2
\* Tasks that exist when waitForTasks is entered directly.
MaxTasks == 2
\* Largest length of the task list handed to waitForTasks directly.
MaxLen == 2

STATE_POWERON == "poweredOn"
STATE_POWEROFF == "poweredOff"
PowerStates == {STATE_POWERON, STATE_POWEROFF, "suspended"}

\* vim.TaskInfo.State. The loop tells success and error from the rest, so
\* "running" stands for both states of a task that has not ended (queued,
\* running).
TaskStates == {"running", "success", "error"}
\* The faults the server can put in TaskInfo.error.
Faults == {"InvalidState", "FileFault"}
\* The fault a failing WaitForUpdates / CreateFilter call raises.
RequestFault == "RequestCanceled"
None == "None"
\* version = None: the token of a first WaitForUpdates call.
NoVersion == 0

VARIABLES
    vmList,         \* powerDownAndDelete's vmList: sequence of VM ids
    powerState,     \* virtualMachine.runtime.powerState of each VM
    jobs,           \* the server's tasks, in submission order; a handle is an index
    dirty,          \* tasks whose info changed since the collector last reported
    srvVersion,     \* the version number of the last update the collector
                    \* returned for the current filter (0: none yet)
    ppc,            \* position in powerDownAndDelete
    idx,            \* position of the for loop in vmList
    powerTaskList,  \* powerDownAndDelete's powerTaskList
    deleteTaskList, \* powerDownAndDelete's deleteTaskList
    wpc,            \* position in waitForTasks
    tasks,          \* waitForTasks' argument
    taskList,       \* waitForTasks' taskList (strings)
    filter,         \* waitForTasks' filter (None before CreateFilter)
    version,        \* waitForTasks' version
    state,          \* waitForTasks' state
    exc,            \* the exception in flight or propagated (None if none)
    nCreate,        \* history: CreateFilter calls that returned a filter
    nDestroy,       \* history: filter.Destroy() calls
    okSeen,         \* history: handles read with state success in a change
    errTask,        \* history: the task of the first change read with state
                    \* error while its handle was pending ({} or one task)
    readAfter,      \* history: changes the loop body ran on after that one
    powerRead       \* history: the power states line 111 has read, in order

vars == << vmList, powerState, jobs, dirty, srvVersion, ppc, idx, powerTaskList,
           deleteTaskList, wpc, tasks, taskList, filter, version, state, exc,
           nCreate, nDestroy, okSeen, errTask, readAfter, powerRead >>

srvVars == << jobs, dirty, srvVersion, powerState >>
pddVars == << vmList, ppc, idx, powerTaskList, deleteTaskList >>
wtVars == << wpc, tasks, taskList, filter, version, state, exc >>
histVars == << nCreate, nDestroy, okSeen, errTask, readAfter, powerRead >>

Range(s) == { s[k] : k \in DOMAIN s }

Handles == DOMAIN jobs

\* str(task): the printed managed-object reference, one string per task.
Str(task) == << "vim.Task", task >>

\* list.remove(x): drops the first occurrence of x.
RECURSIVE Remove(_, _)
Remove(s, x) ==
    IF s = << >> THEN << >>
    ELSE IF Head(s) = x THEN Tail(s)
    ELSE << Head(s) >> \o Remove(Tail(s), x)

\* [str(task) for task in tasks]
StrList(ts) == [ k \in DOMAIN ts |-> Str(ts[k]) ]

NewJob(op, vm) == [ op |-> op, vm |-> vm, state |-> "running", error |-> None ]

\* errTask while no such change has been read.
NoTask == {}

(***************************************************************************)
(* The server: tasks and the property collector.                           *)
(***************************************************************************)

\* TaskInfoError reading the error of the first task of the list instead of
\* the task of the change.
TaskInfoError_FirstTask(task) == jobs[tasks[1]].error

\* task.info.error, read from the server when the loop raises it.
TaskInfoError(task) == jobs[task].error

\* The value a change of property `name` of `task` carries: the whole
\* TaskInfo for "info", the bare state for "info.state", a progress figure
\* for "info.progress".
ChangeVal(task, name) ==
    IF name = "info"
    THEN [ state |-> jobs[task].state, error |-> jobs[task].error ]
    ELSE IF name = "info.state" THEN jobs[task].state
    ELSE "50"

\* The change sets the collector can report for a task whose info changed:
\* the state always comes with it, as the full record, the bare field, or both.
ChangeSets ==
    { << "info" >>, << "info.state" >>, << "info", "info.state" >>,
      << "info.progress", "info.state" >> }

ObjectUpdate(task, names) ==
    [ obj |-> task,
      changeSet |-> [ k \in DOMAIN names |->
                        [ name |-> names[k], val |-> ChangeVal(task, names[k]) ] ] ]

Perms(S) ==
    { p \in [ 1..Cardinality(S) -> S ] :
        \A a, b \in 1..Cardinality(S) : a # b => p[a] # p[b] }

\* The tasks a WaitForUpdates(ver) call reports: on a first call every task
\* of the filter, afterwards the tasks changed since the last report.
Reported(ver) == IF ver = NoVersion THEN Range(tasks) \cup dirty ELSE dirty

\* The update WaitForUpdates returns when it reports the tasks in the order
\* `order`, each with the change set cs gives it.
UpdateSet(order, cs) ==
    [ version |-> srvVersion + 1,
      filterSet |-> << [ objectSet |->
          [ k \in DOMAIN order |-> ObjectUpdate(order[k], cs[order[k]]) ] ] >> ]

TaskSucceed(h) ==
    /\ jobs[h].state = "running"
    /\ jobs' = [ jobs EXCEPT ![h].state = "success" ]
    /\ dirty' = dirty \cup {h}
    /\ powerState' = IF jobs[h].op = "PowerOffVM_Task"
                     THEN [ powerState EXCEPT ![jobs[h].vm] = STATE_POWEROFF ]
                     ELSE powerState
    /\ UNCHANGED << srvVersion, pddVars, wtVars, histVars >>

TaskFail(h) ==
    /\ jobs[h].state = "running"
    /\ \E f \in Faults :
         jobs' = [ jobs EXCEPT ![h].state = "error", ![h].error = f ]
    /\ dirty' = dirty \cup {h}
    /\ UNCHANGED << srvVersion, powerState, pddVars, wtVars, histVars >>

(***************************************************************************)
(* waitForTasks                                                            *)
(***************************************************************************)

\* ProcessChange with the elif of line 84 left out: a bare "info.state"
\* change is dropped like any other unread property.
ProcessChange_InfoOnly(acc, task, change) ==
    LET recognised == change.name = "info"
        st == IF recognised THEN change.val.state ELSE acc.state
        read == [ acc EXCEPT
                    !.ok = IF change.name \in { "info", "info.state" }
                              /\ ChangeVal(task, "info.state") = "success"
                           THEN @ \cup {task} ELSE @ ]
    IN  IF ~recognised THEN read
        ELSE IF Str(task) \notin Range(acc.taskList)
        THEN [ read EXCEPT !.state = st ]
        ELSE IF st = "success"
        THEN [ read EXCEPT !.state = st, !.taskList = Remove(@, Str(task)) ]
        ELSE IF st = "error"
        THEN [ read EXCEPT !.state = st, !.exc = TaskInfoError(task),
                           !.errTask = {task} ]
        ELSE [ read EXCEPT !.state = st ]

\* ProcessChange without the else branch of lines 86-87: a change of another
\* property goes on to lines 89-96 with the state the last change left.
ProcessChange_StaleState(acc, task, change) ==
    LET recognised == change.name \in { "info", "info.state" }
        st == IF change.name = "info" THEN change.val.state
              ELSE IF change.name = "info.state" THEN change.val
              ELSE acc.state
        read == [ acc EXCEPT
                    !.ok = IF recognised /\ st = "success"
                           THEN @ \cup {task} ELSE @,
                    !.errTask = IF /\ @ = NoTask
                                   /\ recognised
                                   /\ st = "error"
                                   /\ Str(task) \in Range(acc.taskList)
                                THEN {task} ELSE @,
                    !.readAfter = IF acc.errTask # NoTask THEN @ + 1 ELSE @ ]
    IN  IF Str(task) \notin Range(acc.taskList)
        THEN [ read EXCEPT !.state = st ]
        ELSE IF st = "success"
        THEN [ read EXCEPT !.state = st, !.taskList = Remove(@, Str(task)) ]
        ELSE IF st = "error"
        THEN [ read EXCEPT !.state = st, !.exc = TaskInfoError(task) ]
        ELSE [ read EXCEPT !.state = st ]

\* ProcessChange without the test of lines 89-90: lines 92-96 run for every
\* task a change is read of (list.remove of an absent entry raises ValueError).
ProcessChange_NoPendingTest(acc, task, change) ==
    LET recognised == change.name \in { "info", "info.state" }
        st == IF change.name = "info" THEN change.val.state
              ELSE IF change.name = "info.state" THEN change.val
              ELSE acc.state
        read == [ acc EXCEPT
                    !.ok = IF recognised /\ st = "success"
                           THEN @ \cup {task} ELSE @,
                    !.errTask = IF /\ @ = NoTask
                                   /\ recognised
                                   /\ st = "error"
                                   /\ Str(task) \in Range(acc.taskList)
                                THEN {task} ELSE @,
                    !.readAfter = IF acc.errTask # NoTask THEN @ + 1 ELSE @ ]
    IN  IF ~recognised THEN read
        ELSE IF st = "success"
        THEN IF Str(task) \in Range(acc.taskList)
             THEN [ read EXCEPT !.state = st, !.taskList = Remove(@, Str(task)) ]
             ELSE [ read EXCEPT !.state = st, !.exc = "ValueError" ]
        ELSE IF st = "error"
        THEN [ read EXCEPT !.state = st, !.exc = TaskInfoError(task) ]
        ELSE [ read EXCEPT !.state = st ]

\* ProcessChange with lines 86-87 raising on a change of another property
\* instead of skipping it.
ProcessChange_OtherRaises(acc, task, change) ==
    LET recognised == change.name \in { "info", "info.state" }
        st == IF change.name = "info" THEN change.val.state
              ELSE IF change.name = "info.state" THEN change.val
              ELSE acc.state
        read == [ acc EXCEPT
                    !.ok = IF recognised /\ st = "success"
                           THEN @ \cup {task} ELSE @,
                    !.errTask = IF /\ @ = NoTask
                                   /\ recognised
                                   /\ st = "error"
                                   /\ Str(task) \in Range(acc.taskList)
                                THEN {task} ELSE @,
                    !.readAfter = IF acc.errTask # NoTask THEN @ + 1 ELSE @ ]
    IN  IF ~recognised THEN [ read EXCEPT !.exc = "ValueError" ]
        ELSE IF Str(task) \notin Range(acc.taskList)
        THEN [ read EXCEPT !.state = st ]
        ELSE IF st = "success"
        THEN [ read EXCEPT !.state = st, !.taskList = Remove(@, Str(task)) ]
        ELSE IF st = "error"
        THEN [ read EXCEPT !.state = st, !.exc = TaskInfoError(task) ]
        ELSE [ read EXCEPT !.state = st ]

\* The body of "for change in objSet.changeSet" (lines 82-96), run on one
\* change, on the loop's locals acc; acc.exc # None once the body has raised.
ProcessChange(acc, task, change) ==
    LET recognised == change.name \in { "info", "info.state" }
        st == IF change.name = "info" THEN change.val.state
              ELSE IF change.name = "info.state" THEN change.val
              ELSE acc.state
        \* the history of what the body has read
        read == [ acc EXCEPT
                    !.ok = IF recognised /\ st = "success"
                           THEN @ \cup {task} ELSE @,
                    !.errTask = IF /\ @ = NoTask
                                   /\ recognised
                                   /\ st = "error"
                                   /\ Str(task) \in Range(acc.taskList)
                                THEN {task} ELSE @,
                    !.readAfter = IF acc.errTask # NoTask THEN @ + 1 ELSE @ ]
    IN  IF ~recognised THEN read
        ELSE IF Str(task) \notin Range(acc.taskList)
        THEN [ read EXCEPT !.state = st ]
        ELSE IF st = "success"
        THEN [ read EXCEPT !.state = st, !.taskList = Remove(@, Str(task)) ]
        ELSE IF st = "error"
        THEN [ read EXCEPT !.state = st, !.exc = TaskInfoError(task) ]
        ELSE [ read EXCEPT !.state = st ]

\* ForChangeSet with the exception kept for the end of the change set.
RECURSIVE ForChangeSet_RaiseLate(_, _, _)
ForChangeSet_RaiseLate(acc, task, changeSet) ==
    IF changeSet = << >> THEN acc
    ELSE ForChangeSet_RaiseLate(ProcessChange(acc, task, Head(changeSet)), task,
                                Tail(changeSet))

\* for change in objSet.changeSet (line 81); a raise ends every loop.
RECURSIVE ForChangeSet(_, _, _)
ForChangeSet(acc, task, changeSet) ==
    IF changeSet = << >> \/ acc.exc # None THEN acc
    ELSE ForChangeSet(ProcessChange(acc, task, Head(changeSet)), task, Tail(changeSet))

\* for objSet in filterSet.objectSet (lines 79-80)
RECURSIVE ForObjectSet(_, _)
ForObjectSet(acc, objectSet) ==
    IF objectSet = << >> \/ acc.exc # None THEN acc
    ELSE ForObjectSet(ForChangeSet(acc, Head(objectSet).obj, Head(objectSet).changeSet),
                      Tail(objectSet))

\* for filterSet in update.filterSet (line 78)
RECURSIVE ForFilterSet(_, _)
ForFilterSet(acc, filterSet) ==
    IF filterSet = << >> \/ acc.exc # None THEN acc
    ELSE ForFilterSet(ForObjectSet(acc, Head(filterSet).objectSet), Tail(filterSet))

\* if filter: (line 100)
Truthy(f) == f # None

\* Finally with the Destroy left to the normal return (no try/finally).
Finally_OnReturnOnly(e) ==
    /\ nDestroy' = IF Truthy(filter) /\ e = None THEN nDestroy + 1 ELSE nDestroy
    /\ exc' = e
    /\ wpc' = IF e = None THEN "returned" ELSE "raised"

\* Lines 99-101 and the way out of waitForTasks: filter.Destroy() if there
\* is a filter, then the return, or the re-raise of the exception e.
Finally(e) ==
    /\ nDestroy' = IF Truthy(filter) THEN nDestroy + 1 ELSE nDestroy
    /\ exc' = e
    /\ wpc' = IF e = None THEN "returned" ELSE "raised"

\* Lines 59-73: taskList, the filter spec, CreateFilter, version and state.
CreateFilter ==
    /\ wpc = "enter"
    /\ taskList' = StrList(tasks)
    /\ filter' = "filter"
    /\ version' = NoVersion
    /\ state' = None
    /\ wpc' = "loop"
    /\ nCreate' = nCreate + 1
    /\ srvVersion' = 0
    /\ UNCHANGED << jobs, dirty, powerState, pddVars, tasks, exc, nDestroy, okSeen,
                    errTask, readAfter, powerRead >>

\* CreateFilterFault with line 70 inside the try block and a finally that
\* destroys without the test of line 100.
CreateFilterFault_Unwinds ==
    /\ wpc = "enter"
    /\ taskList' = StrList(tasks)
    /\ filter' = None
    /\ exc' = RequestFault
    /\ wpc' = "raised"
    /\ nDestroy' = nDestroy + 1
    /\ UNCHANGED << srvVars, pddVars, tasks, version, state, nCreate, okSeen,
                    errTask, readAfter, powerRead >>

\* Line 70 raising: the fault leaves waitForTasks before the try block.
CreateFilterFault ==
    /\ wpc = "enter"
    /\ taskList' = StrList(tasks)
    /\ filter' = None
    /\ exc' = RequestFault
    /\ wpc' = "raised"
    /\ UNCHANGED << srvVars, pddVars, tasks, version, state, histVars >>

\* LoopExit with the loop test off by one (while len(taskList) > 1).
LoopExit_OffByOne ==
    /\ wpc = "loop"
    /\ Len(taskList) <= 1
    /\ Finally(None)
    /\ UNCHANGED << srvVars, pddVars, tasks, taskList, filter, version, state,
                    nCreate, okSeen, errTask, readAfter, powerRead >>

\* LoopExit with the Destroy of lines 99-101 in an except clause instead of
\* the finally: a normal return leaves the filter.
LoopExit_KeepsFilter ==
    /\ wpc = "loop"
    /\ Len(taskList) = 0
    /\ wpc' = "returned"
    /\ exc' = None
    /\ UNCHANGED << srvVars, pddVars, tasks, taskList, filter, version, state,
                    histVars >>

\* Line 76 with an empty taskList: the loop ends, then lines 99-101.
LoopExit ==
    /\ wpc = "loop"
    /\ Len(taskList) = 0
    /\ Finally(None)
    /\ UNCHANGED << srvVars, pddVars, tasks, taskList, filter, version, state,
                    nCreate, okSeen, errTask, readAfter, powerRead >>

\* WaitForUpdates with line 98 moved up to follow line 77: version is set
\* before the update is processed, also when processing raises.
WaitForUpdates_AdvanceEarly ==
    /\ wpc = "loop"
    /\ Len(taskList) # 0
    /\ Reported(version) # {}
    /\ \E order \in Perms(Reported(version)),
          cs \in [ Reported(version) -> ChangeSets ] :
         \E update \in { UpdateSet(order, cs) } :
         \E r \in { ForFilterSet([ taskList |-> taskList, state |-> state, exc |-> None,
                                   ok |-> okSeen, errTask |-> errTask,
                                   readAfter |-> readAfter ],
                                 update.filterSet) } :
             /\ taskList' = r.taskList
             /\ state' = r.state
             /\ okSeen' = r.ok
             /\ errTask' = r.errTask
             /\ readAfter' = r.readAfter
             /\ version' = update.version
             /\ IF r.exc # None
                THEN Finally(r.exc)
                ELSE /\ wpc' = "loop"
                     /\ UNCHANGED << exc, nDestroy >>
             /\ srvVersion' = update.version
    /\ dirty' = {}
    /\ UNCHANGED << jobs, powerState, pddVars, tasks, filter, nCreate, powerRead >>

\* Lines 76-98: one turn of the while loop; lines 99-101 if the turn raises.
\* WaitForUpdates blocks until the collector has something to report.
WaitForUpdates ==
    /\ wpc = "loop"
    /\ Len(taskList) # 0
    /\ Reported(version) # {}
    /\ \E order \in Perms(Reported(version)),
          cs \in [ Reported(version) -> ChangeSets ] :
         \E update \in { UpdateSet(order, cs) } :
         \E r \in { ForFilterSet([ taskList |-> taskList, state |-> state, exc |-> None,
                                   ok |-> okSeen, errTask |-> errTask,
                                   readAfter |-> readAfter ],
                                 update.filterSet) } :
             /\ taskList' = r.taskList
             /\ state' = r.state
             /\ okSeen' = r.ok
             /\ errTask' = r.errTask
             /\ readAfter' = r.readAfter
             /\ IF r.exc # None
                THEN /\ Finally(r.exc)
                     /\ version' = version
                ELSE /\ wpc' = "loop"
                     /\ version' = update.version
                     /\ UNCHANGED << exc, nDestroy >>
             /\ srvVersion' = update.version
    /\ dirty' = {}
    /\ UNCHANGED << jobs, powerState, pddVars, tasks, filter, nCreate, powerRead >>

\* Line 77 raising a fault of its own, then lines 99-101.
WaitForUpdatesFault ==
    /\ wpc = "loop"
    /\ Len(taskList) # 0
    /\ Finally(RequestFault)
    /\ UNCHANGED << srvVars, pddVars, tasks, taskList, filter, version, state,
                    nCreate, okSeen, errTask, readAfter, powerRead >>

(***************************************************************************)
(* powerDownAndDelete                                                      *)
(***************************************************************************)

\* PowerOffStep with the test of line 112 turned into "not powered off".
PowerOffStep_NotOff ==
    /\ ppc = "poweroff"
    /\ idx <= Len(vmList)
    /\ IF powerState[vmList[idx]] # STATE_POWEROFF
       THEN /\ jobs' = Append(jobs, NewJob("PowerOffVM_Task", vmList[idx]))
            /\ powerTaskList' = Append(powerTaskList, Len(jobs) + 1)
       ELSE UNCHANGED << jobs, powerTaskList >>
    /\ idx' = idx + 1
    /\ powerRead' = Append(powerRead, powerState[vmList[idx]])
    /\ UNCHANGED << vmList, ppc, deleteTaskList, dirty, srvVersion, powerState,
                    wtVars, nCreate, nDestroy, okSeen, errTask, readAfter >>

\* Lines 110-115: one turn of the first for loop.
PowerOffStep ==
    /\ ppc = "poweroff"
    /\ idx <= Len(vmList)
    /\ IF powerState[vmList[idx]] = STATE_POWERON
       THEN /\ jobs' = Append(jobs, NewJob("PowerOffVM_Task", vmList[idx]))
            /\ powerTaskList' = Append(powerTaskList, Len(jobs) + 1)
       ELSE UNCHANGED << jobs, powerTaskList >>
    /\ idx' = idx + 1
    /\ powerRead' = Append(powerRead, powerState[vmList[idx]])
    /\ UNCHANGED << vmList, ppc, deleteTaskList, dirty, srvVersion, powerState,
                    wtVars, nCreate, nDestroy, okSeen, errTask, readAfter >>

\* PowerOffWait with lines 117-118 left out: no wait between the two loops.
PowerOffWait_NoWait ==
    /\ ppc = "poweroff"
    /\ idx > Len(vmList)
    /\ ppc' = "destroy"
    /\ idx' = 1
    /\ UNCHANGED << vmList, powerTaskList, deleteTaskList, srvVars, wtVars, histVars >>

\* Lines 117-118: after the loop, wait for the power-off tasks if there are any.
PowerOffWait ==
    /\ ppc = "poweroff"
    /\ idx > Len(vmList)
    /\ IF powerTaskList # << >>
       THEN /\ ppc' = "wait1"
            /\ wpc' = "enter"
            /\ tasks' = powerTaskList
            /\ idx' = idx
       ELSE /\ ppc' = "destroy"
            /\ idx' = 1
            /\ UNCHANGED << wpc, tasks >>
    /\ UNCHANGED << vmList, powerTaskList, deleteTaskList, srvVars, taskList, filter,
                    version, state, exc, histVars >>

\* PowerOffWaited with the exception of line 118 caught and dropped.
PowerOffWaited_Swallow ==
    /\ ppc = "wait1"
    /\ wpc \in { "returned", "raised" }
    /\ ppc' = "destroy"
    /\ idx' = 1
    /\ wpc' = "idle"
    /\ UNCHANGED << vmList, powerTaskList, deleteTaskList, srvVars, tasks, taskList,
                    filter, version, state, exc, histVars >>

\* Line 118 returning, or raising out of powerDownAndDelete.
PowerOffWaited ==
    /\ ppc = "wait1"
    /\ wpc \in { "returned", "raised" }
    /\ IF wpc = "returned"
       THEN ppc' = "destroy" /\ idx' = 1
       ELSE ppc' = "raised" /\ idx' = idx
    /\ wpc' = "idle"
    /\ UNCHANGED << vmList, powerTaskList, deleteTaskList, srvVars, tasks, taskList,
                    filter, version, state, exc, histVars >>

\* DestroyStep destroying only the machines it finds powered off.
DestroyStep_OnlyOff ==
    /\ ppc = "destroy"
    /\ idx <= Len(vmList)
    /\ IF powerState[vmList[idx]] = STATE_POWEROFF
       THEN /\ jobs' = Append(jobs, NewJob("Destroy_Task", vmList[idx]))
            /\ deleteTaskList' = Append(deleteTaskList, Len(jobs) + 1)
       ELSE UNCHANGED << jobs, deleteTaskList >>
    /\ idx' = idx + 1
    /\ UNCHANGED << vmList, ppc, powerTaskList, dirty, srvVersion, powerState,
                    wtVars, histVars >>

\* Lines 123-126: one turn of the second for loop.
DestroyStep ==
    /\ ppc = "destroy"
    /\ idx <= Len(vmList)
    /\ jobs' = Append(jobs, NewJob("Destroy_Task", vmList[idx]))
    /\ deleteTaskList' = Append(deleteTaskList, Len(jobs) + 1)
    /\ idx' = idx + 1
    /\ UNCHANGED << vmList, ppc, powerTaskList, dirty, srvVersion, powerState,
                    wtVars, histVars >>

\* DestroyWait without the test of line 128: waitForTasks is always called.
DestroyWait_Always ==
    /\ ppc = "destroy"
    /\ idx > Len(vmList)
    /\ ppc' = "wait2"
    /\ wpc' = "enter"
    /\ tasks' = deleteTaskList
    /\ UNCHANGED << vmList, idx, powerTaskList, deleteTaskList, srvVars, taskList,
                    filter, version, state, exc, histVars >>

\* Lines 128-129: after the loop, wait for the destroy tasks if there are any.
DestroyWait ==
    /\ ppc = "destroy"
    /\ idx > Len(vmList)
    /\ IF deleteTaskList # << >>
       THEN /\ ppc' = "wait2"
            /\ wpc' = "enter"
            /\ tasks' = deleteTaskList
       ELSE /\ ppc' = "returned"
            /\ UNCHANGED << wpc, tasks >>
    /\ UNCHANGED << vmList, idx, powerTaskList, deleteTaskList, srvVars, taskList,
                    filter, version, state, exc, histVars >>

\* DestroyWaited with the exception of line 129 caught and the second loop
\* run again.
DestroyWaited_Retry ==
    /\ ppc = "wait2"
    /\ wpc \in { "returned", "raised" }
    /\ IF wpc = "returned"
       THEN ppc' = "returned" /\ idx' = idx
       ELSE ppc' = "destroy" /\ idx' = 1
    /\ wpc' = "idle"
    /\ UNCHANGED << vmList, powerTaskList, deleteTaskList, srvVars, tasks,
                    taskList, filter, version, state, exc, histVars >>

\* Line 129 returning, or raising out of powerDownAndDelete.
DestroyWaited ==
    /\ ppc = "wait2"
    /\ wpc \in { "returned", "raised" }
    /\ ppc' = wpc
    /\ wpc' = "idle"
    /\ UNCHANGED << vmList, idx, powerTaskList, deleteTaskList, srvVars, tasks,
                    taskList, filter, version, state, exc, histVars >>

(***************************************************************************)
(* Specification                                                           *)
(***************************************************************************)

InitCommon ==
    /\ dirty = {}
    /\ srvVersion = 0
    /\ idx = 1
    /\ powerTaskList = << >>
    /\ deleteTaskList = << >>
    /\ taskList = << >>
    /\ filter = None
    /\ version = NoVersion
    /\ state = None
    /\ exc = None
    /\ nCreate = 0
    /\ nDestroy = 0
    /\ okSeen = {}
    /\ errTask = NoTask
    /\ readAfter = 0
    /\ powerRead = << >>

\* powerDownAndDelete(serviceInstance, folder, vmList, verbose) is entered.
InitPowerDownAndDelete ==
    /\ \E n \in 0..MaxVMs :
         /\ vmList = [ k \in 1..n |-> k ]
         /\ powerState \in [ 1..n -> PowerStates ]
    /\ jobs = << >>
    /\ ppc = "poweroff"
    /\ wpc = "idle"
    /\ tasks = << >>

\* The task lists of length n, repeated handles included, with the handles
\* numbered in the order of their first occurrence.
TaskLists(n) ==
    { ts \in [ 1..n -> 1..MaxTasks ] :
        \A k \in 1..n : \A h \in 1..(ts[k] - 1) : \E j \in 1..(k - 1) : ts[j] = h }

\* waitForTasks(serviceInstance, tasks) is entered on tasks already submitted.
InitWaitForTasks ==
    /\ vmList = << >>
    /\ powerState = << >>
    /\ jobs = [ k \in 1..MaxTasks |-> NewJob("Task", 0) ]
    /\ ppc = "none"
    /\ wpc = "enter"
    /\ \E n \in 1..MaxLen : tasks \in TaskLists(n)

Init == InitCommon /\ (InitPowerDownAndDelete \/ InitWaitForTasks)

\* The program has not ended: the entry point has neither returned nor raised.
Running ==
    IF ppc = "none" THEN wpc \notin { "returned", "raised" }
    ELSE ppc \notin { "returned", "raised" }

\* The server moves a task on while the program runs.
Server ==
    /\ Running
    /\ \E h \in Handles : TaskSucceed(h) \/ TaskFail(h)

Next ==
    \/ Server
    \/ CreateFilter
    \/ CreateFilterFault
    \/ LoopExit
    \/ WaitForUpdates
    \/ WaitForUpdatesFault
    \/ PowerOffStep
    \/ PowerOffWait
    \/ PowerOffWaited
    \/ DestroyStep
    \/ DestroyWait
    \/ DestroyWaited

Spec == Init /\ [][Next]_vars

\* The steps of the program that no fault of the server's is needed for.
Program ==
    \/ CreateFilter
    \/ LoopExit
    \/ WaitForUpdates
    \/ PowerOffStep
    \/ PowerOffWait
    \/ PowerOffWaited
    \/ DestroyStep
    \/ DestroyWait
    \/ DestroyWaited

\* The interpreter keeps running the program, WaitForUpdates returns when
\* the collector has something to report, and the server keeps ending tasks
\* while there are tasks to end (so every task ends: they are finitely many).
Fairness ==
    /\ WF_vars(Program)
    /\ WF_vars(Server)

FairSpec == Spec /\ Fairness

(***************************************************************************)
(* Properties                                                              *)
(***************************************************************************)

NoDup(ts) == Cardinality(Range(ts)) = Len(ts)

\* waitForTasks has been left by the exception of a task (line 96).
TaskErrorRaised == exc \in Faults

\* A task of waitForTasks' argument has ended in error.
SomeTaskFailed == \E k \in DOMAIN tasks : jobs[tasks[k]].state = "error"

\* C1: a call of waitForTasks on a non-empty list of distinct tasks, all of
\* which end in success (none in error, no fault of the server), returns
\* normally, whatever updates report them (full info or bare info.state, in
\* any order); and whenever it returns normally taskList is empty.
C1_AllSuccessReturns ==
    /\ [](wpc = "returned" => taskList = << >>)
    /\ (wpc = "loop" /\ NoDup(tasks))
         ~> \/ wpc = "returned" /\ exc = None /\ taskList = << >>
            \/ SomeTaskFailed
            \/ exc = RequestFault

\* C1 witness: a call on two distinct tasks has returned after two updates.
C1_Witness ==
    /\ wpc = "returned"
    /\ Len(tasks) = 2
    /\ NoDup(tasks)
    /\ srvVersion >= 2

\* C2: waitForTasks returns normally only when every task of its argument
\* has been read with state success (and has ended in success); while
\* taskList is non-empty and nothing was raised the loop cannot end, it can
\* only call WaitForUpdates again.
C2_ReturnOnlyAfterAllSuccess ==
    /\ wpc = "returned" =>
         \A k \in DOMAIN tasks :
            tasks[k] \in okSeen /\ jobs[tasks[k]].state = "success"
    /\ (wpc = "loop" /\ Len(taskList) # 0) => ~ENABLED LoopExit

\* C2 witness: the loop is waiting with one task removed and one pending.
C2_Witness ==
    /\ wpc = "loop"
    /\ Len(tasks) = 2
    /\ Len(taskList) = 1
    /\ srvVersion >= 1

\* C3: as soon as the loop reads a change with state error for a pending
\* handle, waitForTasks is left with an exception, other tasks pending or
\* not; the loop body runs on no further change, of that update or a later
\* one, and WaitForUpdates is not called again.
C3_FirstErrorEndsWait ==
    /\ [](errTask # NoTask =>
            /\ exc # None
            /\ wpc = "raised" \/ (wpc = "idle" /\ ppc = "raised")
            /\ readAfter = 0)
    /\ [][errTask # NoTask =>
            UNCHANGED << srvVersion, taskList, okSeen, readAfter, exc >>]_vars

\* C3 witness: the wait was ended by an error while another task was pending.
C3_Witness ==
    /\ wpc = "raised"
    /\ errTask # NoTask
    /\ Len(taskList) = 2
    /\ \E k \in DOMAIN tasks : jobs[tasks[k]].state = "running"

\* C4: a filter that was created is destroyed exactly once by the call that
\* created it, on every way out (return, exception of a task, a fault raised
\* in the loop): while the loop runs one filter is alive, and once the call
\* is over as many filters were destroyed as were created.
C4_FilterDestroyedOnce ==
    /\ wpc = "loop" => nCreate = nDestroy + 1
    /\ wpc \in { "idle", "enter", "returned", "raised" } => nCreate = nDestroy

\* C4 witness: a fault raised in the loop has left waitForTasks, the filter
\* destroyed.
C4_Witness ==
    /\ wpc = "raised"
    /\ exc = RequestFault
    /\ Truthy(filter)
    /\ nDestroy = 1


PowerJobs == { h \in Handles : jobs[h].op = "PowerOffVM_Task" }
DestroyJobs == { h \in Handles : jobs[h].op = "Destroy_Task" }

\* The machines the tasks of a task list were submitted for, in order.
VMsOf(ts) == [ k \in DOMAIN ts |-> jobs[ts[k]].vm ]

\* The machines of vmList that line 111 has read as powered on, in order.
ReadOn ==
    LET on == SelectSeq([ k \in DOMAIN powerRead |-> k ],
                        LAMBDA k : powerRead[k] = STATE_POWERON)
    IN  [ k \in DOMAIN on |-> vmList[on[k]] ]

\* C5: in powerDownAndDelete every PowerOffVM_Task request comes before the
\* first Destroy_Task request, and once a Destroy_Task request exists every
\* power-off task has ended and has been read in its final state.
C5_PhaseBarrier ==
    \A d \in DestroyJobs : \A p \in PowerJobs :
        /\ p < d
        /\ jobs[p].state \in { "success", "error" }
        /\ p \in okSeen

\* C5 witness: a destroy request follows two power-off tasks.
C5_Witness ==
    /\ DestroyJobs # {}
    /\ Cardinality(PowerJobs) = 2

\* C6: when a power-off task has ended in error no Destroy_Task request is
\* submitted for any machine, powerDownAndDelete does not return normally,
\* and when it is over it has ended with the exception waitForTasks raised
\* in its first call.
C6_PowerOffErrorAborts ==
    (\E p \in PowerJobs : jobs[p].state = "error") =>
        /\ DestroyJobs = {}
        /\ deleteTaskList = << >>
        /\ ppc \in { "poweroff", "wait1", "raised" }
        /\ ppc = "raised" => exc \in Faults \cup { RequestFault } /\ nCreate <= 1

\* C6 witness: powerDownAndDelete has raised; one power-off failed, the
\* other succeeded.
C6_Witness ==
    /\ ppc = "raised"
    /\ TaskErrorRaised
    /\ \E p \in PowerJobs : jobs[p].state = "error"
    /\ \E p \in PowerJobs : jobs[p].state = "success"

\* C7: the PowerOffVM_Task requests are those for the machines whose power
\* state line 111 read as poweredOn, one each, in the order of vmList; a
\* machine read in another state gets none; and waitForTasks is called for
\* them only if there is at least one.
C7_PowerOffExactlyPoweredOn ==
    ppc # "none" =>
        /\ Len(powerRead) = (IF ppc = "poweroff" THEN idx - 1 ELSE Len(vmList))
        /\ VMsOf(powerTaskList) = ReadOn
        /\ PowerJobs = Range(powerTaskList)
        /\ NoDup(powerTaskList)
        /\ ppc = "wait1" => powerTaskList # << >> /\ tasks = powerTaskList
        /\ (powerTaskList = << >> /\ ppc \in { "poweroff", "destroy" }) =>
              nCreate = 0 /\ wpc = "idle" /\ exc = None

\* C7 witness: the first loop is over; of two machines one was powered on
\* and one suspended.
C7_Witness ==
    /\ ppc = "wait1"
    /\ Len(vmList) = 2
    /\ Len(powerTaskList) = 1
    /\ "suspended" \in Range(powerRead)

\* C8: when the first phase has not failed, the second loop submits one
\* Destroy_Task per machine of vmList, in order, whatever its power state
\* was; all are submitted before the one waitForTasks call that waits for
\* them; and powerDownAndDelete ends with an exception only if a task ended
\* in error or the server raised a fault.
C8_DestroyEveryTarget ==
    ppc # "none" =>
        /\ VMsOf(deleteTaskList) = SubSeq(vmList, 1, Len(deleteTaskList))
        /\ DestroyJobs = Range(deleteTaskList)
        /\ NoDup(deleteTaskList)
        /\ ppc = "destroy" => Len(deleteTaskList) = idx - 1 /\ wpc = "idle"
        /\ ppc \in { "wait2", "returned" } => Len(deleteTaskList) = Len(vmList)
        /\ ppc = "wait2" =>
              /\ tasks = deleteTaskList
              /\ nCreate <= (IF powerTaskList = << >> THEN 1 ELSE 2)
        /\ ppc = "returned" =>
              /\ exc = None
              /\ \A h \in Handles : jobs[h].state = "success"
        /\ ppc = "raised" =>
              \/ exc = RequestFault
              \/ \E h \in Handles : jobs[h].state = "error"

\* C8 witness: powerDownAndDelete has returned; one machine was powered on,
\* the other already off.
C8_Witness ==
    /\ ppc = "returned"
    /\ powerRead = << STATE_POWERON, STATE_POWEROFF >>
    /\ Len(deleteTaskList) = 2

\* C9: powerDownAndDelete on an empty vmList submits no task, creates no
\* filter, calls WaitForUpdates never, and does not raise.
C9_EmptyListNoOp ==
    (ppc # "none" /\ vmList = << >>) =>
        /\ jobs = << >>
        /\ nCreate = 0
        /\ srvVersion = 0
        /\ wpc = "idle"
        /\ exc = None
        /\ ppc \in { "poweroff", "destroy", "returned" }

\* C9 witness: powerDownAndDelete has returned from an empty vmList.
C9_Witness ==
    /\ ppc = "returned"
    /\ vmList = << >>

\* C10 as claimed: the failure raised on the first error read carries the
\* handle of the task it comes from, so no other task's error is the same
\* failure.
C10_FailureCarriesHandle ==
    (wpc = "raised" /\ errTask # NoTask) =>
        \A h \in Range(tasks) : jobs[h].error = exc => h \in errTask

\* C10 as amended: the failure raised on the first error read is the error
\* of the task of that change (task.info.error), a fault of the server; it
\* is that payload alone.
C10_FailureIsPayloadOfErrTask ==
    \A t \in errTask :
        /\ exc = jobs[t].error
        /\ exc \in Faults

\* C10 witness: a task's error was raised while another task had ended in
\* error with another fault.
C10_Witness ==
    /\ wpc = "raised"
    /\ errTask # NoTask
    /\ \E h \in Range(tasks) : jobs[h].state = "error" /\ jobs[h].error # exc


\* The entries of the list s that are x.
Count(s, x) == Cardinality({ k \in DOMAIN s : s[k] = x })

\* The entries of str(h) that the loop has removed from taskList so far.
Removed(h) == Count(StrList(tasks), Str(h)) - Count(taskList, Str(h))

\* waitForTasks has built its taskList (line 61) and is in, or out of, the loop.
InCall == wpc \in { "loop", "returned", "raised" }

\* What C11 says of a state of the call: taskList holds handles of the
\* argument only; an entry is gone only for a handle read with state
\* success; a handle has left at most once; and a task's exception is
\* raised only on a change read with state error for a pending handle.
JobSetState(distinctOnly) ==
    (InCall /\ (distinctOnly => NoDup(tasks))) =>
        /\ Range(taskList) \subseteq Range(StrList(tasks))
        /\ \A h \in Range(tasks) :
              /\ Removed(h) \in { 0, 1 }
              /\ Removed(h) > 0 => h \in okSeen /\ jobs[h].state = "success"
        /\ exc \in Faults => errTask # NoTask

\* What C11 says of a step of the loop: taskList only loses entries, at most
\* one per handle and update (a handle reported with both "info" and
\* "info.state" in state success loses one entry, not two), and only of
\* handles read with state success.
JobSetStep(distinctOnly) ==
    (wpc = "loop" /\ (distinctOnly => NoDup(tasks))) =>
        \A h \in Range(tasks) :
            /\ Count(taskList', Str(h)) <= Count(taskList, Str(h))
            /\ Count(taskList', Str(h)) >= Count(taskList, Str(h)) - 1
            /\ Count(taskList', Str(h)) < Count(taskList, Str(h)) => h \in okSeen'

\* C11 as claimed: during a call of waitForTasks, taskList holds handles of
\* the argument only and only ever shrinks; a handle leaves it exactly once,
\* and only when a change with state success for that handle is processed; a
\* second change with state success for the same handle ("info", then
\* "info.state" in one update) removes nothing and raises nothing.
C11_JobSetInvariant ==
    /\ [](JobSetState(FALSE))
    /\ [][JobSetStep(FALSE)]_vars

\* C11 holds of the calls whose argument lists no task twice.
C11_OnDistinctTasks ==
    /\ [](JobSetState(TRUE))
    /\ [][JobSetStep(TRUE)]_vars

\* C12: the loop decides about a task on the state of that task alone: an
\* entry of a task is removed only if that task itself is in state success
\* (a task that is running or in error keeps all its entries, whatever was
\* read of other tasks before it, in whatever order, changes of other
\* properties in between), and a task's exception is raised only for a task
\* that is itself in state error, and it is that task's error.
C12_StatePerHandle ==
    InCall =>
        /\ \A h \in Range(tasks) :
              /\ Removed(h) > 0 => jobs[h].state = "success"
              /\ jobs[h].state # "success" =>
                    Count(taskList, Str(h)) = Count(StrList(tasks), Str(h))
        /\ \A t \in errTask : jobs[t].state = "error" /\ exc = jobs[t].error
        /\ exc \in Faults =>
              \E t \in Range(tasks) : errTask = {t} /\ jobs[t].state = "error"

\* C12 witness: an update reported a task in state success and, after it, a
\* task still running: the first was removed, the second is still pending.
C12_Witness ==
    /\ wpc = "loop"
    /\ srvVersion = 1
    /\ state = "running"
    /\ \E h \in Range(tasks) : h \in okSeen /\ Removed(h) = 1
    /\ \E h \in Range(tasks) : jobs[h].state = "running" /\ Removed(h) = 0

\* The locals of the loop between two updates, as ProcessChange takes them.
Locals ==
    [ taskList |-> taskList, state |-> state, exc |-> None,
      ok |-> okSeen, errTask |-> errTask, readAfter |-> readAfter ]

\* The tasks that are not pending: never in the argument, or removed.
NotPending == { h \in Handles : Str(h) \notin Range(taskList) }

\* C13: a change read for a task whose handle is not in taskList (a task
\* that was never in the argument, or one removed after its success) is
\* skipped, whatever state it carries: taskList stays as it is and nothing
\* is raised, also when the state is error. So no exception of a task leaves
\* waitForTasks while no task of the argument is in error.
C13_NotPendingIgnored ==
    InCall =>
        /\ \A h \in NotPending : \A name \in { "info", "info.state" } :
              \E r \in { ProcessChange(Locals, h,
                                       [ name |-> name, val |-> ChangeVal(h, name) ]) } :
                  /\ r.taskList = taskList
                  /\ r.exc = None
        /\ (\A h \in Range(tasks) : jobs[h].state # "error") => exc \notin Faults

\* C13 witness: a task that is not in the argument has ended in error and
\* an update has reported it (dirty is empty again); the loop is still
\* waiting for a task of the argument.
C13_Witness ==
    /\ wpc = "loop"
    /\ srvVersion >= 1
    /\ dirty = {}
    /\ exc = None
    /\ taskList # << >>
    /\ \E h \in Handles \ Range(tasks) : jobs[h].state = "error"

\* The change of property `name` the collector reports for task h.
Change(h, name) == [ name |-> name, val |-> ChangeVal(h, name) ]

\* What the loop body leaves to the program: taskList, state, the exception.
Effect(r) == << r.taskList, r.state, r.exc >>

\* The changes of the task state that can follow in the same change set.
StateChanges == { << "info" >>, << "info.state" >>, << "info", "info.state" >> }

\* C14: a change whose name is neither "info" nor "info.state" is dropped:
\* read for any task, pending or not, in any state, it leaves taskList and
\* state as they are and raises nothing, and the changes that follow it in
\* the change set have the effect they have without it.
C14_OtherChangeDropped ==
    wpc = "loop" =>
        \A h \in Handles :
            /\ Effect(ProcessChange(Locals, h, Change(h, "info.progress")))
                 = Effect(Locals)
            /\ \A names \in StateChanges :
                  Effect(ForChangeSet(Locals, h,
                            ObjectUpdate(h, << "info.progress" >> \o names).changeSet))
                    = Effect(ForChangeSet(Locals, h, ObjectUpdate(h, names).changeSet))

\* C14 witness: the loop is about to be told of a pending task that ended in
\* error, and of one that ended in success; "info.progress" read before
\* "info.state" leaves the one raised, the other removed.
C14_Witness ==
    /\ wpc = "loop"
    /\ Len(taskList) = 2
    /\ \E h \in dirty :
          /\ jobs[h].state = "error"
          /\ ForChangeSet(Locals, h,
                ObjectUpdate(h, << "info.progress", "info.state" >>).changeSet).exc
               = jobs[h].error
    /\ \E h \in dirty :
          /\ jobs[h].state = "success"
          /\ Len(ForChangeSet(Locals, h,
                ObjectUpdate(h, << "info.progress", "info.state" >>).changeSet).taskList)
               = 1

\* The current call of waitForTasks was left by line 70 raising.
CreateFailed == filter = None /\ exc = RequestFault

\* C15: when CreateFilter raises, waitForTasks is left with that fault at
\* once: in the failing step and ever after, WaitForUpdates is not called,
\* no filter is created or destroyed and no task is submitted; and when the
\* call was the one for the power-off tasks, powerDownAndDelete ends with
\* the fault and no Destroy_Task request exists.
C15_CreateFilterFaultPropagates ==
    /\ [](CreateFailed =>
            /\ wpc = "raised" \/ (wpc = "idle" /\ ppc = "raised")
            /\ nCreate = nDestroy
            /\ ppc = "none" => srvVersion = 0 /\ nDestroy = 0
            /\ (ppc # "none" /\ tasks = powerTaskList) =>
                  /\ ppc \in { "wait1", "raised" }
                  /\ DestroyJobs = {}
                  /\ srvVersion = 0
                  /\ nDestroy = 0)
    /\ [][CreateFailed' =>
            /\ UNCHANGED << srvVersion, nCreate, nDestroy, powerTaskList,
                            deleteTaskList >>
            /\ Len(jobs') = Len(jobs)]_vars

\* C15 witness: powerDownAndDelete has ended with the fault CreateFilter
\* raised in the call for its power-off tasks.
C15_Witness ==
    /\ CreateFailed
    /\ ppc = "raised"
    /\ Len(powerTaskList) = 2
    /\ DestroyJobs = {}

\* C16: the first WaitForUpdates call of a waitForTasks call is made with
\* version None, and every later one with the version of the update the call
\* before it returned (srvVersion): while the loop runs, version is the
\* version last returned, None if none was. version moves only in a turn of
\* the loop that processed its whole update without raising, and then to
\* that update's version, the next one: no update is skipped, none is asked
\* for twice. A turn that raises leaves version as it was.
C16_VersionProtocol ==
    /\ [](wpc = "loop" =>
            /\ version = srvVersion
            /\ srvVersion = 0 => version = NoVersion)
    /\ [][wpc = "loop" =>
            /\ srvVersion' \in { srvVersion, srvVersion + 1 }
            /\ version' # version =>
                  /\ wpc' = "loop"
                  /\ exc' = None
                  /\ srvVersion' = srvVersion + 1
                  /\ version' = srvVersion'
            /\ (srvVersion' # srvVersion /\ wpc' = "loop") => version' = srvVersion'
            /\ wpc' = "raised" => version' = version]_vars

\* C16 witness: two updates were processed, and the third WaitForUpdates
\* call raised a task's error: version is still that of the second update.
C16_Witness ==
    /\ wpc = "raised"
    /\ TaskErrorRaised
    /\ srvVersion = 3
    /\ version = 2

\* C17 as claimed: once every task of the argument has been read with state
\* success, the loop has nothing left to wait for, also when the argument
\* lists a task more than once: taskList is empty (line 76 ends the loop and
\* waitForTasks returns), it holds no entry that no update will remove.
C17_DuplicateHandlesReturn ==
    (wpc = "loop" /\ \A h \in Range(tasks) : h \in okSeen) => taskList = << >>

\* C17, the failing state: every task that exists has ended and was
\* reported, so WaitForUpdates has nothing more to return, and taskList
\* still holds an entry of a task that was read with state success.
C17_Stuck ==
    /\ wpc = "loop"
    /\ taskList # << >>
    /\ dirty = {}
    /\ version # NoVersion
    /\ \A h \in Handles : jobs[h].state # "running"
    /\ \A h \in Range(tasks) : h \in okSeen
    /\ ~ENABLED WaitForUpdates
    /\ ~ENABLED LoopExit

\* The filters created and not yet destroyed.
FiltersAlive == nCreate - nDestroy

\* C18: in powerDownAndDelete at most one filter is alive at any time, and
\* only inside a waitForTasks call: none while the two for loops submit
\* their requests (the filter of the first wait is destroyed before the
\* first Destroy_Task request and before the filter of the second wait is
\* created), and none when powerDownAndDelete has returned or raised.
C18_OneFilterAtATime ==
    ppc # "none" =>
        /\ FiltersAlive \in { 0, 1 }
        /\ FiltersAlive = 1 => ppc \in { "wait1", "wait2" } /\ wpc = "loop"
        /\ ppc \in { "poweroff", "destroy", "returned", "raised" } => FiltersAlive = 0
        /\ (ppc = "wait1" /\ FiltersAlive = 1) => nCreate = 1 /\ DestroyJobs = {}
        /\ nCreate <= 2

\* C18 witness: the second wait runs on its own filter, the first one's
\* destroyed.
C18_Witness ==
    /\ ppc = "wait2"
    /\ wpc = "loop"
    /\ nCreate = 2
    /\ nDestroy = 1

\* What C19 says of the first turn of the loop (version None, the update
\* processed without a raise): a task of the argument that was in state
\* success before the call, so also one that was before the filter was
\* created (a task in success stays there), is pending no more after it.
FirstUpdateStep(distinctOnly) ==
    /\ \A h \in Handles : jobs[h].state = "success" => jobs'[h].state = "success"
    /\ ( /\ wpc = "loop"
         /\ version = NoVersion
         /\ srvVersion' = 1
         /\ exc' = None
         /\ distinctOnly => NoDup(tasks) ) =>
            \A h \in Range(tasks) :
                jobs[h].state = "success" =>
                    /\ h \in okSeen'
                    /\ Str(h) \notin Range(taskList')

\* C19 as claimed: a task that was in state success before the filter was
\* created is not missed: the first WaitForUpdates call reports every task
\* of the filter, the task is taken off taskList while that update is
\* processed, and waitForTasks waits for no further change of it.
C19_FinishedBeforeFilter == [][FirstUpdateStep(FALSE)]_vars

\* C19 holds of the calls whose argument lists no task twice.
C19_OnDistinctTasks == [][FirstUpdateStep(TRUE)]_vars

\* The second waitForTasks call of powerDownAndDelete has read a
\* Destroy_Task in state error.
DestroyErrorRead == errTask # NoTask /\ errTask \subseteq DestroyJobs

\* C20: when the second wait reads a Destroy_Task in state error,
\* powerDownAndDelete ends with that task's error, and by then one
\* Destroy_Task had been submitted for every machine of vmList, all of them
\* before the wait began. Requests are never withdrawn; none is submitted
\* during the wait, and none, power-off or destroy, once the error is read.
C20_DestroyErrorFails ==
    /\ [](ppc = "wait2" =>
            /\ VMsOf(deleteTaskList) = vmList
            /\ DestroyJobs = Range(deleteTaskList)
            /\ Cardinality(DestroyJobs) = Len(vmList))
    /\ [](DestroyErrorRead =>
            /\ \A t \in errTask : jobs[t].state = "error" /\ exc = jobs[t].error
            /\ (ppc = "wait2" /\ wpc = "raised") \/ (ppc = "raised" /\ wpc = "idle")
            /\ VMsOf(deleteTaskList) = vmList
            /\ Cardinality(DestroyJobs) = Len(vmList)
            /\ Cardinality(PowerJobs) = Len(powerTaskList))
    /\ []((\E d \in DestroyJobs : jobs[d].state = "error") => ppc # "returned")
    /\ [][/\ Len(jobs') >= Len(jobs)
          /\ \A h \in Handles : jobs'[h].op = jobs[h].op /\ jobs'[h].vm = jobs[h].vm
          /\ (ppc = "wait2" \/ errTask' # NoTask) =>
                /\ Len(jobs') = Len(jobs)
                /\ UNCHANGED << powerTaskList, deleteTaskList >>]_vars

\* C20 witness: powerDownAndDelete has raised the error of one Destroy_Task
\* while the Destroy_Task of the other machine, submitted too, still runs.
C20_Witness ==
    /\ ppc = "raised"
    /\ DestroyErrorRead
    /\ TaskErrorRaised
    /\ Len(vmList) = 2
    /\ Len(deleteTaskList) = 2
    /\ \E d \in DestroyJobs : jobs[d].state = "running"

====
